---- MODULE Spec2Model ----
(***************************************************************************)
(* Portfolio backend: visit analytics (track_analytics,                    *)
(* get_analytics_stats), client address resolution (get_client_ip),        *)
(* geolocation (get_ip_info) and newsletter subscription                   *)
(* (subscribe_newsletter), over a document store.                          *)
(*                                                                         *)
(* Conventions of the model                                                *)
(*  - Time is an integer number of days; `now` is datetime.utcnow().       *)
(*  - A text value that the code splits or strips (a header value, an      *)
(*    address) is a sequence of tokens; the tokens "," and " " are the     *)
(*    comma and a whitespace character, every other token is a run of      *)
(*    characters holding neither.  <<>> is the empty string.               *)
(*  - Python's None is the value None below; an optional header is a       *)
(*    record [set, val] (set = FALSE: headers.get returns None).           *)
(*  - A collection of the store is the sequence of its documents in        *)
(*    insertion order.                                                     *)
(***************************************************************************)
EXTENDS Integers, Sequences, FiniteSets, TLC

VARIABLES
    now,         \* datetime.utcnow(), in days
    analytics,   \* db.analytics: documents in insertion order
    calls,       \* track_analytics calls: record built, geolocation outcome, state, response
    statsPc,     \* position of the get_analytics_stats call
    stats,       \* its local variables
    statsResp,   \* its response
    seen,        \* number of documents in db.analytics at each of its reads
    newsletter,  \* db.newsletter: documents in insertion order
    subs         \* subscribe_newsletter calls: input, position, response

vars == <<now, analytics, calls, statsPc, stats, statsResp, seen, newsletter, subs>>

\* ---------------------------------------------------------------- bounds
MaxNow == 3
MaxTracks == 2
MaxGeoTracks == 2
MaxNewTracks == 1
MaxHeaderLen == 3
MaxSubs == 3

\* ------------------------------------------------------ program constants
PopularLimit == 10
RecentLimit == 20
Days == 1
GeoStatusOk == 200

None == "<None>"
Unknown == "Unknown"
Comma == ","
Space == " "
Localhost == <<"127.0.0.1">>
TestClient == <<"testclient">>

Absent == [set |-> FALSE, val |-> <<>>]
Header(v) == [set |-> TRUE, val |-> v]

\* ---------------------------------------------------------------- utils.py
\* Python truthiness of an optional string: neither None nor "".
Truthy(h) == h.set /\ h.val # <<>>

\* str.split(",")[0]: the text before the first comma.
RECURSIVE SplitFirst(_)
SplitFirst(s) ==
    IF s = <<>> \/ Head(s) = Comma THEN <<>>
    ELSE <<Head(s)>> \o SplitFirst(Tail(s))

RECURSIVE LStrip(_)
LStrip(s) == IF s # <<>> /\ Head(s) = Space THEN LStrip(Tail(s)) ELSE s

RECURSIVE RStrip(_)
RStrip(s) ==
    IF s # <<>> /\ s[Len(s)] = Space THEN RStrip(SubSeq(s, 1, Len(s) - 1)) ELSE s

\* str.strip()
Strip(s) == RStrip(LStrip(s))

\* getattr(request.client, "host", "127.0.0.1")
ClientHost(peer) == IF peer.set THEN peer.val ELSE Localhost

get_client_ip(request) ==
    IF Truthy(request.xff) THEN Strip(SplitFirst(request.xff.val))
    ELSE IF Truthy(request.realip) THEN request.realip.val
    ELSE IF ClientHost(request.peer) # TestClient THEN ClientHost(request.peer)
    ELSE Localhost

UnknownInfo == [country |-> Unknown, city |-> Unknown, region |-> Unknown]

\* dict.get(key, default)
DictGet(d, k, default) == IF k \in DOMAIN d THEN d[k] ELSE default

\* get_ip_info without its fallback values: a failed lookup yields None.
get_ip_info_no_fallback(response) ==
    IF response.kind = "response" /\ response.status = GeoStatusOk /\ ~response.badjson
    THEN [country |-> DictGet(response.json, "country_name", Unknown),
          city    |-> DictGet(response.json, "city", Unknown),
          region  |-> DictGet(response.json, "region", Unknown)]
    ELSE [country |-> None, city |-> None, region |-> None]

\* response: what requests.get(...) did.  kind = "response": it returned
\* with .status and a body (.json, or .badjson when the body does not parse);
\* any other kind: it raised (timeout, connection error).
get_ip_info(response) ==
    IF response.kind = "response" /\ response.status = GeoStatusOk /\ ~response.badjson
    THEN [country |-> DictGet(response.json, "country_name", Unknown),
          city    |-> DictGet(response.json, "city", Unknown),
          region  |-> DictGet(response.json, "region", Unknown)]
    ELSE UnknownInfo

\* --------------------------------------------------------------- models.py
\* AnalyticsTrack: timestamp defaults to utcnow() when the body has none.
AnalyticsTrack(body, t) ==
    [page |-> body.page, sessionId |-> body.sessionId,
     userAgent |-> body.userAgent, referrer |-> body.referrer,
     timestamp |-> IF body.timestamp.set THEN body.timestamp.val ELSE t]

AnalyticsRecord(uuid, a, ip, info) ==
    [id |-> uuid, sessionId |-> a.sessionId, page |-> a.page,
     timestamp |-> a.timestamp, userAgent |-> a.userAgent, ip |-> ip,
     country |-> info.country, city |-> info.city, referrer |-> a.referrer]

SuccessResponse(msg) == [status |-> 200, success |-> TRUE, message |-> msg]
HTTPException(code, msg) == [status |-> code, detail |-> msg]
\* A call that has not answered yet.
NoResponse == [status |-> 0]

\* NewsletterRecord: subscribedAt defaults to utcnow(), status to "active".
NewsletterRecord(uuid, n, t) ==
    [id |-> uuid, email |-> n.email, name |-> n.name,
     subscribedAt |-> t, status |-> "active"]

\* -------------------------------------------------------------- the store
\* insert_one: the document gets a fresh _id and goes last.
InsertOne(coll, doc) ==
    Append(coll, [f \in DOMAIN doc \cup {"_id"} |->
                    IF f = "_id" THEN Len(coll) + 1 ELSE doc[f]])

\* count_documents({})
CountDocuments(coll) == Len(coll)

\* The indexes in DOMAIN rank as a sequence, rank[i] being the number of
\* indexes that come before i.
Ordered(rank) ==
    [k \in 1..Cardinality(DOMAIN rank) |-> CHOOSE i \in DOMAIN rank : rank[i] = k - 1]

\* Natural (scan) order of the store, which it leaves unspecified: insertion
\* order, or its reverse.
TieOrders == {"forward", "reverse"}
Natural(tie, i, j) == IF tie = "forward" THEN i < j ELSE i > j

\* Distinct without the deduplication: every document's value.
DistinctNoDedup(coll, field) == [k \in DOMAIN coll |-> coll[k][field]]

\* distinct(field): the values of the field, each once.
Distinct(coll, field) ==
    LET first == {i \in DOMAIN coll :
                    \A j \in 1..(i - 1) : coll[j][field] # coll[i][field]}
        ord == Ordered([i \in first |-> Cardinality({j \in first : j < i})])
    IN [k \in DOMAIN ord |-> coll[ord[k]][field]]

\* GroupSortLimit without the $limit stage.
GroupSortNoLimit(coll, field, n, tie) ==
    LET first == {i \in DOMAIN coll :
                    \A j \in 1..(i - 1) : coll[j][field] # coll[i][field]}
        count == [i \in first |->
                    Cardinality({j \in DOMAIN coll : coll[j][field] = coll[i][field]})]
        ord == Ordered([i \in first |-> Cardinality({j \in first :
                    \/ count[j] > count[i]
                    \/ count[j] = count[i] /\ Natural(tie, j, i)})])
    IN [k \in DOMAIN ord |-> [_id |-> coll[ord[k]][field], count |-> count[ord[k]]]]

\* $group by field with $sum 1, $sort count -1, $limit n.
GroupSortLimit(coll, field, n, tie) ==
    LET first == {i \in DOMAIN coll :
                    \A j \in 1..(i - 1) : coll[j][field] # coll[i][field]}
        count == [i \in first |->
                    Cardinality({j \in DOMAIN coll : coll[j][field] = coll[i][field]})]
        ord == Ordered([i \in first |-> Cardinality({j \in first :
                    \/ count[j] > count[i]
                    \/ count[j] = count[i] /\ Natural(tie, j, i)})])
        m == IF Len(ord) < n THEN Len(ord) ELSE n
    IN [k \in 1..m |-> [_id |-> coll[ord[k]][field], count |-> count[ord[k]]]]

\* A projection keeps the fields it names with 1 and, unless it names _id
\* with 0, the _id.
Project(doc, proj) ==
    LET keep == {f \in DOMAIN doc :
                    \/ f \in DOMAIN proj /\ proj[f] = 1
                    \/ f = "_id" /\ ~(f \in DOMAIN proj /\ proj[f] = 0)}
    IN [f \in keep |-> doc[f]]

\* FindRecent without the $gte filter.
FindRecentNoFilter(coll, since, proj, n, tie) ==
    LET ord == Ordered([i \in DOMAIN coll |-> Cardinality({j \in DOMAIN coll :
                    \/ coll[j].timestamp > coll[i].timestamp
                    \/ coll[j].timestamp = coll[i].timestamp /\ Natural(tie, j, i)})])
        m == IF Len(ord) < n THEN Len(ord) ELSE n
    IN [k \in 1..m |-> Project(coll[ord[k]], proj)]

\* find({timestamp: {$gte: since}}, proj).sort("timestamp", -1).limit(n)
FindRecent(coll, since, proj, n, tie) ==
    LET match == {i \in DOMAIN coll : coll[i].timestamp >= since}
        ord == Ordered([i \in match |-> Cardinality({j \in match :
                    \/ coll[j].timestamp > coll[i].timestamp
                    \/ coll[j].timestamp = coll[i].timestamp /\ Natural(tie, j, i)})])
        m == IF Len(ord) < n THEN Len(ord) ELSE n
    IN [k \in 1..m |-> Project(coll[ord[k]], proj)]

\* find({}, proj)
FindAll(coll, proj) == [i \in DOMAIN coll |-> Project(coll[i], proj)]

\* --------------------------------------------------------------- server.py
\* Countries without the "Unknown" test.
CountriesAll(docs) == [k \in DOMAIN docs |-> docs[k].country]

\* [doc["country"] async for doc in cursor if doc.get("country") != "Unknown"]
Countries(docs) ==
    LET keep == {i \in DOMAIN docs : DictGet(docs[i], "country", None) # Unknown}
        ord == Ordered([i \in keep |-> Cardinality({j \in keep : j < i})])
    IN [k \in DOMAIN ord |-> docs[ord[k]].country]

\* dict(Counter(xs))
Counter(xs) ==
    [v \in {xs[i] : i \in DOMAIN xs} |-> Cardinality({i \in DOMAIN xs : xs[i] = v})]

\* [{"page": doc["_id"], "views": doc["count"]} async for doc in cursor]
PopularPages(docs) ==
    [k \in DOMAIN docs |-> [page |-> docs[k]._id, views |-> docs[k].count]]

RecentProjection == [country |-> 1, city |-> 1, timestamp |-> 1, page |-> 1]
CountryProjection == [country |-> 1]

TrackOk == SuccessResponse("Analytics tracked successfully")
TrackFailed == HTTPException(500, "Failed to track analytics")
StatsFailed == HTTPException(500, "Failed to get analytics stats")
AlreadySubscribed == SuccessResponse("You are already subscribed to our newsletter!")
Subscribed == SuccessResponse("Thank you for subscribing to our newsletter!")
SubscribeFailed == HTTPException(500, "Failed to subscribe to newsletter")

NoStats == [total_views |-> 0, unique_visitors |-> 0, popular_pages |-> <<>>,
            recent_visitors |-> <<>>, country_stats |-> <<>>, yesterday |-> 0]
\* Bookkeeping of a call: the size of db.analytics when it began, at each read
\* and when it answered, the time of the recent-visitor query, the read that failed.
NoSeen == [start |-> 0, total |-> 0, unique |-> 0, popular |-> 0,
           recent |-> 0, country |-> 0, end |-> 0, at |-> 0, failed |-> None]

AnalyticsStats(s) ==
    [status |-> 200,
     totalViews |-> s.total_views, uniqueVisitors |-> s.unique_visitors,
     popularPages |-> s.popular_pages, recentVisitors |-> s.recent_visitors,
     countryStats |-> s.country_stats]

\* track_analytics up to its await: the address, the geolocation (a blocking
\* call), the record.  limit bounds the number of calls.
TrackBegin(body, request, response, limit) ==
    /\ Len(calls) < limit
    /\ LET client_ip == get_client_ip(request)
           ip_info == get_ip_info(response)
           record == AnalyticsRecord(Len(calls) + 1, AnalyticsTrack(body, now),
                                     client_ip, ip_info)
       IN calls' = Append(calls, [record |-> record, request |-> request,
                                  geo |-> response, state |-> "pending",
                                  resp |-> NoResponse])
    /\ UNCHANGED <<now, analytics, statsPc, stats, statsResp, seen, newsletter, subs>>

\* await db.analytics.insert_one(record.dict()) and the return.
TrackInsert(c) ==
    /\ calls[c].state = "pending"
    /\ analytics' = InsertOne(analytics, calls[c].record)
    /\ calls' = [calls EXCEPT ![c].state = "stored", ![c].resp = TrackOk]
    /\ UNCHANGED <<now, statsPc, stats, statsResp, seen, newsletter, subs>>

\* insert_one raises: the except clause answers 500.
TrackInsertFails(c) ==
    /\ calls[c].state = "pending"
    /\ calls' = [calls EXCEPT ![c].state = "failed", ![c].resp = TrackFailed]
    /\ UNCHANGED <<now, analytics, statsPc, stats, statsResp, seen, newsletter, subs>>

\* get_analytics_stats, one action per awaited store read.
StatsBegin ==
    /\ statsPc \in {"idle", "done"}
    /\ statsPc' = "count"
    /\ stats' = NoStats
    /\ statsResp' = NoResponse
    /\ seen' = [NoSeen EXCEPT !.start = Len(analytics)]
    /\ UNCHANGED <<now, analytics, calls, newsletter, subs>>

StatsCount ==
    /\ statsPc = "count"
    /\ stats' = [stats EXCEPT !.total_views = CountDocuments(analytics)]
    /\ seen' = [seen EXCEPT !.total = Len(analytics)]
    /\ statsPc' = "distinct"
    /\ UNCHANGED <<now, analytics, calls, statsResp, newsletter, subs>>

StatsDistinct ==
    /\ statsPc = "distinct"
    /\ stats' = [stats EXCEPT !.unique_visitors = Len(Distinct(analytics, "sessionId"))]
    /\ seen' = [seen EXCEPT !.unique = Len(analytics)]
    /\ statsPc' = "aggregate"
    /\ UNCHANGED <<now, analytics, calls, statsResp, newsletter, subs>>

StatsAggregate ==
    /\ statsPc = "aggregate"
    /\ \E tie \in TieOrders :
         stats' = [stats EXCEPT !.popular_pages =
                     PopularPages(GroupSortLimit(analytics, "page", PopularLimit, tie))]
    /\ seen' = [seen EXCEPT !.popular = Len(analytics)]
    /\ statsPc' = "recent"
    /\ UNCHANGED <<now, analytics, calls, statsResp, newsletter, subs>>

StatsRecent ==
    /\ statsPc = "recent"
    /\ \E tie \in TieOrders :
         LET yesterday == now - Days
         IN stats' = [stats EXCEPT
                        !.yesterday = yesterday,
                        !.recent_visitors =
                            FindRecent(analytics, yesterday, RecentProjection,
                                       RecentLimit, tie)]
    /\ seen' = [seen EXCEPT !.recent = Len(analytics), !.at = now]
    /\ statsPc' = "country"
    /\ UNCHANGED <<now, analytics, calls, statsResp, newsletter, subs>>

StatsCountry ==
    /\ statsPc = "country"
    /\ stats' = [stats EXCEPT !.country_stats =
                    Counter(Countries(FindAll(analytics, CountryProjection)))]
    /\ seen' = [seen EXCEPT !.country = Len(analytics)]
    /\ statsPc' = "return"
    /\ UNCHANGED <<now, analytics, calls, statsResp, newsletter, subs>>

\* StatsReturn counting the documents again as it answers.
StatsReturnRecount ==
    /\ statsPc = "return"
    /\ statsResp' = AnalyticsStats([stats EXCEPT !.total_views = CountDocuments(analytics)])
    /\ seen' = [seen EXCEPT !.end = Len(analytics)]
    /\ statsPc' = "done"
    /\ UNCHANGED <<now, analytics, calls, stats, newsletter, subs>>

StatsReturn ==
    /\ statsPc = "return"
    /\ statsResp' = AnalyticsStats(stats)
    /\ seen' = [seen EXCEPT !.end = Len(analytics)]
    /\ statsPc' = "done"
    /\ UNCHANGED <<now, analytics, calls, stats, newsletter, subs>>

\* StatsReadFails answering with what was computed before the failure.
StatsReadFailsPartial ==
    /\ statsPc \in {"count", "distinct", "aggregate", "recent", "country"}
    /\ statsResp' = [AnalyticsStats(stats) EXCEPT !.status = 500]
    /\ seen' = [seen EXCEPT !.end = Len(analytics), !.failed = statsPc]
    /\ statsPc' = "done"
    /\ UNCHANGED <<now, analytics, calls, stats, newsletter, subs>>

\* The read the call is waiting on raises: the except clause answers 500.
StatsReadFails ==
    /\ statsPc \in {"count", "distinct", "aggregate", "recent", "country"}
    /\ statsResp' = StatsFailed
    /\ seen' = [seen EXCEPT !.end = Len(analytics), !.failed = statsPc]
    /\ statsPc' = "done"
    /\ UNCHANGED <<now, analytics, calls, stats, newsletter, subs>>

StatsStep ==
    \/ StatsBegin
    \/ StatsCount
    \/ StatsDistinct
    \/ StatsAggregate
    \/ StatsRecent
    \/ StatsCountry
    \/ StatsReturn
    \/ StatsReadFails

Tick ==
    /\ now < MaxNow
    /\ now' = now + 1
    /\ UNCHANGED <<analytics, calls, statsPc, stats, statsResp, seen, newsletter, subs>>

\* subscribe_newsletter: the call arrives.
SubscribeBegin(body) ==
    /\ Len(subs) < MaxSubs
    /\ subs' = Append(subs, [body |-> body, pc |-> "find", resp |-> NoResponse])
    /\ UNCHANGED <<now, analytics, calls, statsPc, stats, statsResp, seen, newsletter>>

\* existing = await db.newsletter.find_one({"email": newsletter.email})
SubscribeFind(c) ==
    /\ subs[c].pc = "find"
    /\ IF \E i \in DOMAIN newsletter : newsletter[i].email = subs[c].body.email
       THEN subs' = [subs EXCEPT ![c].pc = "done", ![c].resp = AlreadySubscribed]
       ELSE subs' = [subs EXCEPT ![c].pc = "insert"]
    /\ UNCHANGED <<now, analytics, calls, statsPc, stats, statsResp, seen, newsletter>>

\* await db.newsletter.insert_one(record.dict()) and the return.
SubscribeInsert(c) ==
    /\ subs[c].pc = "insert"
    /\ newsletter' = InsertOne(newsletter, NewsletterRecord(c, subs[c].body, now))
    /\ subs' = [subs EXCEPT ![c].pc = "done", ![c].resp = Subscribed]
    /\ UNCHANGED <<now, analytics, calls, statsPc, stats, statsResp, seen>>

\* find_one or insert_one raises: the except clause answers 500.
SubscribeStoreFails(c) ==
    /\ subs[c].pc \in {"find", "insert"}
    /\ subs' = [subs EXCEPT ![c].pc = "done", ![c].resp = SubscribeFailed]
    /\ UNCHANGED <<now, analytics, calls, statsPc, stats, statsResp, seen, newsletter>>

\* ------------------------------------------------------------- the inputs
PageNames == <<"/", "/about", "/projects", "/blog", "/contact", "/resume",
               "/skills", "/education", "/experience", "/awards", "/talks",
               "/photos">>

Body(page, sessionId, timestamp) ==
    [page |-> page, sessionId |-> sessionId, userAgent |-> None,
     referrer |-> None, timestamp |-> timestamp]

Bodies == {Body(PageNames[1], "s1", Absent), Body(PageNames[1], "s2", Absent),
           Body(PageNames[2], "s2", Absent)}

\* Visits with the server's timestamp, a client's old one, a client's future one.
LoadBodies == {Body(PageNames[1], "s1", Absent),
               Body(PageNames[Len(PageNames)], "s1", Header(0)),
               Body(PageNames[Len(PageNames)], "s2", Header(MaxNow + 1))}

\* What the geolocation request can do.
Responded(code, json) ==
    [kind |-> "response", status |-> code, badjson |-> FALSE, json |-> json]
Raised(kind) == [kind |-> kind, status |-> 0, badjson |-> FALSE, json |-> <<>>]
GeoIndia == Responded(200, [country_name |-> "India", city |-> "Pune", region |-> "MH"])
GeoUS == Responded(200, [country_name |-> "United States", city |-> "Austin", region |-> "TX"])
GeoReserved == Responded(200, [error |-> TRUE, reason |-> "Reserved IP Address"])
GeoNull == Responded(200, [country_name |-> None, city |-> None, region |-> None])
GeoGarbled == [Responded(200, <<>>) EXCEPT !.badjson = TRUE]
GeoLimited == Responded(429, [error |-> TRUE, reason |-> "RateLimited"])
GeoTimeout == Raised("timeout")
GeoUnreachable == Raised("exception")
GeoResponses == {GeoIndia, GeoUS, GeoReserved, GeoNull, GeoGarbled, GeoLimited,
                 GeoTimeout, GeoUnreachable}
\* The lookup failed: the request raised, answered other than 200, or its body
\* did not parse.
GeoFailed(response) ==
    response.kind # "response" \/ response.status # 200 \/ response.badjson

Direct == [xff |-> Absent, realip |-> Absent, peer |-> Header(<<"10.0.0.9">>)]

\* Header values: the texts of at most n tokens.
Tokens == {"10.0.0.1", Comma, Space}
RECURSIVE Texts(_)
Texts(n) ==
    IF n = 0 THEN {<<>>}
    ELSE Texts(n - 1) \cup {Append(t, k) : t \in {u \in Texts(n - 1) : Len(u) = n - 1}, k \in Tokens}
Requests ==
    [xff : {Absent} \cup {Header(t) : t \in Texts(MaxHeaderLen)},
     realip : {Absent, Header(<<>>), Header(<<"10.0.0.2">>)},
     peer : {Absent, Header(TestClient), Header(<<"10.0.0.3">>)}]

\* A store that has already taken n visits: the pages in turn, one visit in
\* eight at time 0, one in eight at time 1, the others at time 2.
Preloaded(n) ==
    [i \in 1..n |->
        [_id |-> i, id |-> 0 - i,
         sessionId |-> IF i % 3 = 0 THEN "s1" ELSE "s2",
         page |-> PageNames[((i - 1) % Len(PageNames)) + 1],
         timestamp |-> IF i % 8 = 0 THEN 0 ELSE IF i % 8 = 1 THEN 1 ELSE 2,
         userAgent |-> None, ip |-> <<"10.0.0.9">>,
         country |-> IF i % 2 = 0 THEN Unknown ELSE "India",
         city |-> IF i % 2 = 0 THEN Unknown ELSE "Pune",
         referrer |-> None]]

\* ------------------------------------------------------- the specifications
InitWith(t, docs) ==
    /\ now = t
    /\ analytics = docs
    /\ calls = <<>>
    /\ statsPc = "idle"
    /\ stats = NoStats
    /\ statsResp = NoResponse
    /\ seen = NoSeen
    /\ newsletter = <<>>
    /\ subs = <<>>

Init == InitWith(1, <<>>)

\* Visits and stats calls, freely interleaved.
Next ==
    \/ \E b \in Bodies : TrackBegin(b, Direct, GeoUS, MaxTracks)
    \/ \E c \in DOMAIN calls : TrackInsert(c)
    \/ \E c \in DOMAIN calls : TrackInsertFails(c)
    \/ StatsStep

Spec == Init /\ [][Next]_vars

\* No track_analytics call is waiting on the store.
NoneInFlight == \A c \in DOMAIN calls : calls[c].state # "pending"

\* Visits, one at a time, whose geolocation goes every way it can.
NextGeo ==
    \/ /\ NoneInFlight
       /\ \E r \in GeoResponses :
            TrackBegin(Body(PageNames[1], "s1", Absent), Direct, r, MaxGeoTracks)
    \/ \E c \in DOMAIN calls : TrackInsert(c)
    \/ \E c \in DOMAIN calls : TrackInsertFails(c)
    \/ StatsStep

SpecGeo == Init /\ [][NextGeo]_vars

\* A store with many visits, new visits (one at a time) with client
\* timestamps, and the clock.
InitLoad == \E n \in {0, 2 * Len(PageNames)} : InitWith(2, Preloaded(n))

NextLoad ==
    \/ /\ NoneInFlight
       /\ \E b \in LoadBodies : TrackBegin(b, Direct, GeoUS, MaxNewTracks)
    \/ \E c \in DOMAIN calls : TrackInsert(c)
    \/ StatsStep
    \/ Tick

SpecLoad == InitLoad /\ [][NextLoad]_vars

\* One visit, from every request.
NextIp ==
    \/ \E r \in Requests : TrackBegin(Body(PageNames[1], "s1", Absent), r, GeoUS, 1)
    \/ \E c \in DOMAIN calls : TrackInsert(c)

SpecIp == Init /\ [][NextIp]_vars

\* Newsletter subscriptions, freely interleaved.
Emails == {"a@x.org", "b@x.org"}
NextNews ==
    \/ \E e \in Emails : SubscribeBegin([email |-> e, name |-> "Ann"])
    \/ \E c \in DOMAIN subs : SubscribeFind(c)
    \/ \E c \in DOMAIN subs : SubscribeInsert(c)
    \/ \E c \in DOMAIN subs : SubscribeStoreFails(c)

SpecNews == Init /\ [][NextNews]_vars

\* ------------------------------------------------------------- properties
\* The stats call has answered with a snapshot.
Answered == statsPc = "done" /\ statsResp.status = 200
\* The first k documents of db.analytics.
Prefix(k) == SubSeq(analytics, 1, k)
\* No visit was stored while the stats call ran.
Quiet == seen.start = seen.end

RECURSIVE SumViews(_)
SumViews(pp) == IF pp = <<>> THEN 0 ELSE Head(pp).views + SumViews(Tail(pp))

\* C1: after N stored visits whose session identifiers take K distinct values,
\* a stats call during which no visit is stored answers uniqueVisitors = K.
C1_UniqueVisitorsIsDistinctSessions ==
    (Answered /\ Quiet) =>
        statsResp.uniqueVisitors =
            Cardinality({analytics[i].sessionId : i \in 1..seen.end})

\* Two or more visits of fewer sessions were counted.
C1_Witness ==
    /\ Answered /\ Quiet
    /\ statsResp.uniqueVisitors >= 1
    /\ seen.end > statsResp.uniqueVisitors

\* C2: popularPages has at most 10 entries, each with the number of stored
\* visits of its page, in non-increasing order of views, and no page left out
\* has more views than a page listed.
C2_PopularPagesTopTen ==
    Answered =>
        LET pp == statsResp.popularPages
            Views(q) == Cardinality({i \in 1..seen.popular : analytics[i].page = q})
            listed == {pp[k].page : k \in DOMAIN pp}
            stored == {analytics[i].page : i \in 1..seen.popular}
        IN /\ Len(pp) <= 10
           /\ \A k \in DOMAIN pp : pp[k].views = Views(pp[k].page)
           /\ \A k \in 1..(Len(pp) - 1) : pp[k].views >= pp[k + 1].views
           /\ \A q \in stored \ listed : \A k \in DOMAIN pp : Views(q) <= pp[k].views

\* More than 10 pages were visited, unequally, and 10 are listed.
C2_Witness ==
    /\ Answered
    /\ Cardinality({analytics[i].page : i \in 1..seen.popular}) > 10
    /\ Len(statsResp.popularPages) = 10
    /\ statsResp.popularPages[1].views > statsResp.popularPages[10].views

\* C3: recentVisitors holds no visit whose timestamp is more than 24 hours (one
\* day) before the time of the query, has at most 20 entries and is in
\* non-increasing order of timestamp, client-supplied timestamps included.
C3_RecentVisitorsWindow ==
    Answered =>
        LET rv == statsResp.recentVisitors
        IN /\ Len(rv) <= 20
           /\ \A k \in DOMAIN rv : rv[k].timestamp >= seen.at - 1
           /\ \A k \in 1..(Len(rv) - 1) : rv[k].timestamp >= rv[k + 1].timestamp

\* The store held a visit with an old client-supplied timestamp and more than
\* 20 recent visits; 20 are listed.
C3_Witness ==
    /\ Answered
    /\ Len(statsResp.recentVisitors) = 20
    /\ Cardinality({i \in 1..seen.recent : analytics[i].timestamp >= seen.at - 1}) > 20
    /\ \E i \in 1..seen.recent :
         analytics[i].id > 0 /\ analytics[i].timestamp < seen.at - 1

\* C4: countryStats has no key "Unknown" and maps every other country of a
\* stored visit to the number of stored visits of that country; it is empty
\* when every stored visit's country is "Unknown".
C4_CountryStatsWithoutUnknown ==
    Answered =>
        LET cs == statsResp.countryStats
            stored == {analytics[i].country : i \in 1..seen.country}
        IN /\ Unknown \notin DOMAIN cs
           /\ DOMAIN cs = stored \ {Unknown}
           /\ \A v \in stored \ {Unknown} :
                cs[v] = Cardinality({i \in 1..seen.country : analytics[i].country = v})
           /\ (stored \subseteq {Unknown}) => cs = <<>>

\* Unresolved and resolved visits were stored, and counted.
C4_Witness ==
    /\ Answered
    /\ \E i \in 1..seen.country : analytics[i].country = Unknown
    /\ \E i \in 1..seen.country : analytics[i].country # Unknown
    /\ DOMAIN statsResp.countryStats # {}

\* C5: a track_analytics call whose geolocation failed and whose store write
\* succeeded has stored exactly one visit, with country and city "Unknown",
\* and answered success; a failed geolocation alone never makes it answer 500.
C5_GeoFailureDegrades ==
    \A c \in DOMAIN calls :
        GeoFailed(calls[c].geo) =>
            /\ calls[c].state = "stored" =>
                /\ calls[c].resp = TrackOk
                /\ Cardinality({i \in DOMAIN analytics :
                                  analytics[i].id = calls[c].record.id}) = 1
                /\ \A i \in DOMAIN analytics :
                     analytics[i].id = calls[c].record.id =>
                        analytics[i].country = Unknown /\ analytics[i].city = Unknown
            /\ calls[c].resp.status = 500 => calls[c].state = "failed"

\* Visits whose geolocation timed out, answered 429 and raised were stored.
C5_Witness ==
    \E a, b \in DOMAIN calls :
        /\ calls[a].geo = GeoTimeout /\ calls[a].state = "stored"
        /\ calls[b].geo \in {GeoLimited, GeoUnreachable, GeoGarbled}
        /\ calls[b].state = "stored"

\* C6: when a store read of get_analytics_stats fails the call answers
\* HTTP 500 'Failed to get analytics stats' with no field of the snapshot,
\* and no step of the call changes the store.
C6_ReadFailureAborts ==
    /\ [](seen.failed # None =>
            /\ statsPc = "done"
            /\ statsResp = StatsFailed
            /\ DOMAIN statsResp \cap {"totalViews", "uniqueVisitors", "popularPages",
                                      "recentVisitors", "countryStats"} = {})
    /\ [][StatsStep => analytics' = analytics]_vars

\* The country scan failed after the other fields were computed.
C6_Witness ==
    /\ statsPc = "done"
    /\ seen.failed = "country"
    /\ stats.total_views > 0
    /\ stats.recent_visitors # <<>>

\* C7: the address get_client_ip returns (stored in the visit) is never the
\* empty string, and it comes from the first non-empty of the forwarded-for
\* header, the real-IP header and the peer address.
C7_ClientIpNeverEmpty ==
    \A c \in DOMAIN calls :
        LET r == calls[c].request
            ip == calls[c].record.ip
        IN /\ ip # <<>>
           /\ (~Truthy(r.xff) /\ Truthy(r.realip)) => ip = r.realip.val
           /\ (~Truthy(r.xff) /\ ~Truthy(r.realip) /\ Truthy(r.peer)
                 /\ r.peer.val # TestClient) => ip = r.peer.val

\* C8: every entry of recentVisitors has the fields country, city, timestamp
\* and page, and no other.
C8_RecentVisitorsProjectedOnly ==
    Answered =>
        \A k \in DOMAIN statsResp.recentVisitors :
            DOMAIN statsResp.recentVisitors[k] = {"country", "city", "timestamp", "page"}

\* C9: every field of a snapshot is computed over the visits stored when its
\* read ran; the reads see growing sets of visits, from those stored when the
\* call began to those stored when it answered; totalViews lies between the two
\* counts; when no visit was stored meanwhile, uniqueVisitors <= totalViews and
\* the popularPages views sum to at most totalViews.
C9_SnapshotOverGrowingStore ==
    Answered =>
        /\ seen.start <= seen.total /\ seen.total <= seen.unique
        /\ seen.unique <= seen.popular /\ seen.popular <= seen.recent
        /\ seen.recent <= seen.country /\ seen.country <= seen.end
        /\ seen.end <= Len(analytics)
        /\ statsResp.totalViews = Len(Prefix(seen.total))
        /\ statsResp.uniqueVisitors =
              Cardinality({analytics[i].sessionId : i \in 1..seen.unique})
        /\ \E tie \in TieOrders :
              statsResp.popularPages =
                 PopularPages(GroupSortLimit(Prefix(seen.popular), "page", 10, tie))
        /\ \E tie \in TieOrders :
              statsResp.recentVisitors =
                 FindRecent(Prefix(seen.recent), seen.at - 1, RecentProjection, 20, tie)
        /\ statsResp.countryStats =
              Counter(Countries(FindAll(Prefix(seen.country), CountryProjection)))
        /\ seen.start <= statsResp.totalViews /\ statsResp.totalViews <= seen.end
        /\ Quiet =>
              /\ statsResp.uniqueVisitors <= statsResp.totalViews
              /\ SumViews(statsResp.popularPages) <= statsResp.totalViews

\* Visits were stored between the reads: more sessions than views are reported.
C9_Witness ==
    /\ Answered
    /\ statsResp.uniqueVisitors > statsResp.totalViews
    /\ seen.start < seen.total

\* C10: db.newsletter never holds two records with the same email.
C10_OneRecordPerEmail ==
    \A i, j \in DOMAIN newsletter :
        newsletter[i].email = newsletter[j].email => i = j

====
